---- MODULE Spec2Model ----
(***************************************************************************)
(* can-i-delete: the foreign-key relation graph built by collectRelations  *)
(* and the search for a non-cascading relation done by findNonCascading.   *)
(*                                                                         *)
(* The two recursive functions are run one loop iteration per step on an   *)
(* explicit call stack, so that the heap of Table objects, the registry    *)
(* allTables and the module-level set checkedTables can be observed at     *)
(* every point of an analysis.                                             *)
(***************************************************************************)
EXTENDS Integers, Sequences, FiniteSets, TLC

VARIABLES foreignKeys, relations, targetTable, tables, allTables,
          checkedTables, stack, retval, results, examined, pc

vars == <<foreignKeys, relations, targetTable, tables, allTables,
          checkedTables, stack, retval, results, examined, pc>>

----------------------------------------------------------------------------
(* Bounds of the model *)

\* longest list of foreign keys a schema declares
MaxEdges == 3

\* how many times findNonCascading is called on the built root
MaxSearches == 2

\* the tables of the schema (rows of sqlite_master with type = 'table')
TableNames == {"customers", "order_items", "orders"}

\* position of a table name under ORDER BY m.name (byte order)
NameRank(n) ==
    CASE n = "customers" -> 1
      [] n = "order_items" -> 2
      [] n = "orders" -> 3

----------------------------------------------------------------------------
(* The schema and the relations query *)

OnDelete == {"NO ACTION", "CASCADE"}

\* one row of the query: m.name is the referencing (child) table,
\* p."table" the referenced (parent) table
RelationRecord == [name : TableNames, table : TableNames, on_delete : OnDelete]

\* rows come out ordered by m.name
OrderedByName(s) ==
    \A i \in 1..Len(s) : \A j \in 1..Len(s) :
        i < j => NameRank(s[i].name) <= NameRank(s[j].name)

\* every foreign key of the schema, in the order the join enumerates them
Schemas ==
    { s \in UNION { [1..n -> RelationRecord] : n \in 0..MaxEdges } :
        OrderedByName(s) }

\* JOIN pragma_foreign_key_list(m.name) p ON m.name != p."table"
JoinCondition(r) == r.name # r.table

Query(fks) == SelectSeq(fks, JoinCondition)

----------------------------------------------------------------------------
(* Table objects *)

Root == 1

NewTable(tableName) ==
    [name |-> tableName, relations |-> <<>>, collected |-> FALSE]

Registered(tableName) == tableName \in DOMAIN allTables

\* tableFor(tableName): the Table returned ...
tableFor(tableName) ==
    IF Registered(tableName) THEN allTables[tableName] ELSE Len(tables) + 1

\* ... the heap after the call ...
TablesAfterTableFor(tableName) ==
    IF Registered(tableName) THEN tables
    ELSE Append(tables, NewTable(tableName))

\* ... and the registry after the call
AllTablesAfterTableFor(tableName) ==
    IF Registered(tableName) THEN allTables
    ELSE allTables @@ (tableName :> (Len(tables) + 1))

----------------------------------------------------------------------------
(* Results of findNonCascading *)

NoRelation == [parent |-> 0, owner |-> "none", table |-> 0, cascades |-> FALSE]

Null == [isNull |-> TRUE, found |-> NoRelation, relationChain |-> <<>>]

Found(relation, chain) ==
    [isNull |-> FALSE, found |-> relation, relationChain |-> chain]

----------------------------------------------------------------------------
(* Call stack *)

Frame(t, l, i) == [table |-> t, loop |-> l, i |-> i]

Top == stack[Len(stack)]

Pop(s) == SubSeq(s, 1, Len(s) - 1)

ReplaceTop(s, f) == [s EXCEPT ![Len(s)] = f]

Init ==
    /\ foreignKeys \in Schemas
    /\ relations = Query(foreignKeys)
    /\ targetTable \in TableNames
    /\ tables = <<NewTable(targetTable)>>
    /\ allTables = <<>>
    /\ checkedTables = {}
    /\ stack = <<>>
    /\ retval = Null
    /\ results = <<>>
    /\ examined = {}
    /\ pc = "main"

----------------------------------------------------------------------------
(* collectRelations *)

\* collectRelations without its guard
CollectedNever(t, tabs) == FALSE

\* if (table.collected) return;
Collected(t, tabs) == tabs[t].collected

\* the two branches of the loop over the raw relations
IsChildOf(dbRelation, tableName) == dbRelation.name = tableName

\* collectRelations without its else-if branch
IsParentOfNever(dbRelation, tableName) == FALSE

IsParentOf(dbRelation, tableName) == dbRelation.table = tableName

Mentions(dbRelation, tableName) ==
    IsChildOf(dbRelation, tableName) \/ IsParentOf(dbRelation, tableName)

\* the name handed to tableFor in the branch taken
RelatedName(dbRelation, tableName) ==
    IF IsChildOf(dbRelation, tableName) THEN dbRelation.table
    ELSE dbRelation.name

\* the two owners exchanged
OwnerForSwapped(dbRelation, tableName) ==
    IF IsChildOf(dbRelation, tableName) THEN "self" ELSE "parent"

\* the owner written in the branch taken
OwnerFor(dbRelation, tableName) ==
    IF IsChildOf(dbRelation, tableName) THEN "parent" ELSE "self"

Cascades(dbRelation) == dbRelation.on_delete = "CASCADE"

\* the TableRelation pushed onto table.relations
NewRelation(t, dbRelation, related) ==
    [parent   |-> t,
     owner    |-> OwnerFor(dbRelation, tables[t].name),
     table    |-> related,
     cascades |-> Cascades(dbRelation)]

\* a call collectRelations(t) made while `tabs` is the heap and `callers`
\* the stack: returns at once on a collected table, otherwise marks it and
\* enters the loop over the raw relations
CallCollect(t, tabs, callers) ==
    IF Collected(t, tabs)
    THEN /\ tables' = tabs
         /\ stack' = callers
    ELSE /\ tables' = [tabs EXCEPT ![t].collected = TRUE]
         /\ stack' = Append(callers, Frame(t, "relations", 1))

\* line 92: collectRelations(table)
MainCollect ==
    /\ pc = "main"
    /\ pc' = "collectRelations"
    /\ CallCollect(Root, tables, stack)
    /\ UNCHANGED <<foreignKeys, relations, targetTable, allTables,
                   checkedTables, retval, results, examined>>

\* one iteration of `for (const dbRelation of relations)`
CollectRelation ==
    /\ pc = "collectRelations"
    /\ stack # <<>>
    /\ Top.loop = "relations"
    /\ Top.i <= Len(relations)
    /\ LET t == Top.table
           dbRelation == relations[Top.i]
           tableName == tables[t].name
           resume == ReplaceTop(stack, Frame(t, "relations", Top.i + 1))
       IN  IF Mentions(dbRelation, tableName)
           THEN LET related == tableFor(RelatedName(dbRelation, tableName))
                    created == TablesAfterTableFor(RelatedName(dbRelation, tableName))
                    pushed == [created EXCEPT ![t].relations =
                                  Append(@, NewRelation(t, dbRelation, related))]
                IN  /\ allTables' = AllTablesAfterTableFor(RelatedName(dbRelation, tableName))
                    /\ CallCollect(related, pushed, resume)
           ELSE /\ stack' = resume
                /\ UNCHANGED <<tables, allTables>>
    /\ UNCHANGED <<foreignKeys, relations, targetTable, checkedTables,
                   retval, results, examined, pc>>

\* the first loop is exhausted: go on to `for (const r of table.relations)`
CollectRelationsDone ==
    /\ pc = "collectRelations"
    /\ stack # <<>>
    /\ Top.loop = "relations"
    /\ Top.i > Len(relations)
    /\ stack' = ReplaceTop(stack, Frame(Top.table, "deep", 1))
    /\ UNCHANGED <<foreignKeys, relations, targetTable, tables, allTables,
                   checkedTables, retval, results, examined, pc>>

\* one iteration of `for (const r of table.relations) collectRelations(r.table)`
CollectDeep ==
    /\ pc = "collectRelations"
    /\ stack # <<>>
    /\ Top.loop = "deep"
    /\ Top.i <= Len(tables[Top.table].relations)
    /\ CallCollect(tables[Top.table].relations[Top.i].table, tables,
                   ReplaceTop(stack, Frame(Top.table, "deep", Top.i + 1)))
    /\ UNCHANGED <<foreignKeys, relations, targetTable, allTables,
                   checkedTables, retval, results, examined, pc>>

\* collectRelations returns; the outermost return leads to line 94
CollectReturn ==
    /\ pc = "collectRelations"
    /\ stack # <<>>
    /\ Top.loop = "deep"
    /\ Top.i > Len(tables[Top.table].relations)
    /\ stack' = Pop(stack)
    /\ pc' = IF Len(stack) = 1 THEN "search" ELSE pc
    /\ UNCHANGED <<foreignKeys, relations, targetTable, tables, allTables,
                   checkedTables, retval, results, examined>>

----------------------------------------------------------------------------
(* findNonCascading *)

\* if (checkedTables.has(table)) return null;
AlreadyChecked(t) == t \in checkedTables

\* findNonCascading without its owner filter
SkippedNever(relation) == FALSE

\* if (relation.owner === "parent") continue;
Skipped(relation) == relation.owner = "parent"

\* relationChain: [relation.parent.name, relation.table.name]
FirstChain(relation) ==
    <<tables[relation.parent].name, tables[relation.table].name>>

\* push in place of unshift
UnshiftAtEnd(chain, name) == Append(chain, name)

\* result.relationChain.unshift(name)
Unshift(chain, name) == <<name>> \o chain

\* a call findNonCascading(table) made from the top level, with an empty stack
CallFindOnRoot ==
    /\ stack = <<>>
    /\ pc' = "findNonCascading"
    /\ IF AlreadyChecked(Root)
       THEN UNCHANGED <<checkedTables, stack>>
       ELSE /\ checkedTables' = checkedTables \cup {Root}
            /\ stack' = <<Frame(Root, "find", 1)>>
    /\ UNCHANGED <<foreignKeys, relations, targetTable, tables, allTables,
                   retval, results, examined>>

\* line 94: const result = findNonCascading(table)
MainFind ==
    /\ pc = "search"
    /\ CallFindOnRoot

\* a further findNonCascading(table) on the root already built and searched
FindAgain ==
    /\ pc = "report"
    /\ Len(results) < MaxSearches
    /\ CallFindOnRoot

\* one iteration of `for (const relation of table.relations)`
FindRelation ==
    /\ pc = "findNonCascading"
    /\ stack # <<>>
    /\ retval.isNull
    /\ Top.i <= Len(tables[Top.table].relations)
    /\ LET t == Top.table
           relation == tables[t].relations[Top.i]
           continue == ReplaceTop(stack, Frame(t, "find", Top.i + 1))
       IN  IF Skipped(relation)
           THEN /\ stack' = continue
                /\ UNCHANGED <<checkedTables, retval, examined>>
           ELSE /\ examined' = examined \cup {<<t, Top.i>>}
                /\ IF ~relation.cascades
                   THEN /\ retval' = Found(relation, FirstChain(relation))
                        /\ stack' = Pop(stack)
                        /\ UNCHANGED checkedTables
                   ELSE IF AlreadyChecked(relation.table)
                   THEN /\ stack' = continue
                        /\ UNCHANGED <<checkedTables, retval>>
                   ELSE /\ checkedTables' = checkedTables \cup {relation.table}
                        /\ stack' = Append(stack, Frame(relation.table, "find", 1))
                        /\ UNCHANGED retval
    /\ UNCHANGED <<foreignKeys, relations, targetTable, tables, allTables,
                   results, pc>>

\* the loop is exhausted: return null, and the caller's `if (result)` fails,
\* so the caller goes on to its next relation
FindReturnNull ==
    /\ pc = "findNonCascading"
    /\ stack # <<>>
    /\ retval.isNull
    /\ Top.i > Len(tables[Top.table].relations)
    /\ stack' = IF Len(stack) = 1 THEN <<>>
                ELSE LET caller == stack[Len(stack) - 1]
                     IN  ReplaceTop(Pop(stack),
                                    Frame(caller.table, "find", caller.i + 1))
    /\ UNCHANGED <<foreignKeys, relations, targetTable, tables, allTables,
                   checkedTables, retval, results, examined, pc>>

\* the callee returned a result: unshift relation.parent.name and return it
FindReturnFound ==
    /\ pc = "findNonCascading"
    /\ stack # <<>>
    /\ ~retval.isNull
    /\ LET relation == tables[Top.table].relations[Top.i]
       IN  retval' = [retval EXCEPT !.relationChain =
                         Unshift(@, tables[relation.parent].name)]
    /\ stack' = Pop(stack)
    /\ UNCHANGED <<foreignKeys, relations, targetTable, tables, allTables,
                   checkedTables, results, examined, pc>>

\* the top-level call returned; lines 96-118 report the result
MainResult ==
    /\ pc = "findNonCascading"
    /\ stack = <<>>
    /\ results' = Append(results, retval)
    /\ retval' = Null
    /\ pc' = "report"
    /\ UNCHANGED <<foreignKeys, relations, targetTable, tables, allTables,
                   checkedTables, stack, examined>>

----------------------------------------------------------------------------

Next ==
    \/ MainCollect
    \/ CollectRelation
    \/ CollectRelationsDone
    \/ CollectDeep
    \/ CollectReturn
    \/ MainFind
    \/ FindRelation
    \/ FindReturnNull
    \/ FindReturnFound
    \/ MainResult
    \/ FindAgain

Spec == Init /\ [][Next]_vars

\* the program is a single thread that always takes its next step
FairSpec == Init /\ [][Next]_vars /\ WF_vars(Next)

----------------------------------------------------------------------------
(* Vocabulary of the properties *)

Searched == Len(results) >= 1

\* the result of the call at line 94
Result == results[1]

Built == pc \in {"search", "findNonCascading", "report"}

Last(chain) == chain[Len(chain)]

\* table names reached from the names in S along parent-to-child edges,
\* in at most n steps
RECURSIVE Dependents(_, _, _)
Dependents(S, edges, n) ==
    IF n = 0 THEN S
    ELSE Dependents(S \cup { edges[i].name :
                               i \in { j \in 1..Len(edges) : edges[j].table \in S } },
                    edges, n - 1)

\* table names reached from the target along parent-to-child edges
Reachable(edges) == Dependents({targetTable}, edges, Cardinality(TableNames))

\* table names joined to the names in S by edges taken in either direction
RECURSIVE Component(_, _, _)
Component(S, edges, n) ==
    IF n = 0 THEN S
    ELSE Component(S \cup { edges[i].name :
                              i \in { j \in 1..Len(edges) : edges[j].table \in S } }
                     \cup { edges[i].table :
                              i \in { j \in 1..Len(edges) : edges[j].name \in S } },
                   edges, n - 1)

Connected(edges) == Component({targetTable}, edges, Cardinality(TableNames))

\* a non-cascading edge whose referenced table is reachable from the target
Blocking(edges, i) ==
    /\ edges[i].on_delete # "CASCADE"
    /\ edges[i].table \in Reachable(edges)

\* an edge from parent table p to child table c, cascading or not as asked
HasEdge(edges, p, c, cascading) ==
    \E i \in 1..Len(edges) :
        /\ edges[i].table = p
        /\ edges[i].name = c
        /\ (edges[i].on_delete = "CASCADE") = cascading

\* the result is Unsafe, its chain starts at the target and ends with the
\* two tables of the relation found
UnsafeWithChain(r) ==
    /\ ~r.isNull
    /\ Len(r.relationChain) >= 2
    /\ r.relationChain[1] = targetTable
    /\ r.relationChain[Len(r.relationChain) - 1] = tables[r.found.parent].name
    /\ Last(r.relationChain) = tables[r.found.table].name
    /\ ~r.found.cascades

\* the edges that mention a table name, in the order of the list
EdgesOf(edges, tableName) ==
    SelectSeq(edges, LAMBDA e : e.name = tableName \/ e.table = tableName)

\* the other end of an edge that mentions a table name
OtherEnd(e, tableName) == IF e.name = tableName THEN e.table ELSE e.name

\* the collected tables hold the connected component of the target over
\* `edges`, each with one relation per edge that mentions it, in order
ComponentBuilt(edges) ==
    /\ \A n \in Connected(edges) :
          \E t \in 1..Len(tables) : tables[t].name = n /\ tables[t].collected
    /\ \A t \in 1..Len(tables) :
          tables[t].collected =>
            LET mine == EdgesOf(edges, tables[t].name)
            IN  /\ Len(tables[t].relations) = Len(mine)
                /\ \A k \in 1..Len(mine) :
                      /\ tables[tables[t].relations[k].table].name
                            = OtherEnd(mine[k], tables[t].name)
                      /\ tables[t].relations[k].cascades
                            = (mine[k].on_delete = "CASCADE")

----------------------------------------------------------------------------
(* C1 *)

\* C1: whenever the schema's edge list holds a non-cascading edge whose
\* referenced table is reachable from the target along parent-to-child
\* edges, the search returns Unsafe, with a chain that starts at the target
\* and ends with the parent and the child of the relation found.
BlockingEdgeIsFound ==
    (Searched /\ \E i \in 1..Len(foreignKeys) : Blocking(foreignKeys, i))
        => UnsafeWithChain(Result)

\* The same restricted to the rows the relations query returns, which hold
\* no self-referencing key: every non-cascading row whose referenced table
\* is reachable is reported.
BlockingRowIsFound ==
    (Searched /\ \E i \in 1..Len(relations) : Blocking(relations, i))
        => UnsafeWithChain(Result)

----------------------------------------------------------------------------
(* C2 *)

AllReachableCascade ==
    \A i \in 1..Len(foreignKeys) :
        foreignKeys[i].table \in Reachable(foreignKeys)
            => foreignKeys[i].on_delete = "CASCADE"

\* C2: when every edge whose referenced table is reachable from the target
\* has on_delete = CASCADE, the search returns Safe; this covers a target
\* that no edge mentions.
AllCascadeIsSafe ==
    (Searched /\ AllReachableCascade) => Result.isNull

\* a target with a cascading dependent, which itself references a table
\* out of its reach without cascading, has been searched
AllCascadeIsSafeWitness ==
    /\ Searched
    /\ AllReachableCascade
    /\ Cardinality(Reachable(foreignKeys)) = 2
    /\ \E i \in 1..Len(foreignKeys) :
          /\ foreignKeys[i].on_delete # "CASCADE"
          /\ foreignKeys[i].name = targetTable
    /\ Cardinality(checkedTables) >= 2

----------------------------------------------------------------------------
(* C3 *)

SelfEdge(action) ==
    [name |-> targetTable, table |-> targetTable, on_delete |-> action]

\* C3: for a schema whose only foreign key is a self-reference on the
\* target T, the result is Safe when the key cascades and Unsafe with chain
\* [T, T] when it is NO ACTION, and the key is a relation of T that the
\* search examines.
SelfReferenceIsExamined ==
    Searched =>
      /\ foreignKeys = <<SelfEdge("CASCADE")>> =>
            /\ Result.isNull
            /\ \E k \in 1..Len(tables[Root].relations) : <<Root, k>> \in examined
      /\ foreignKeys = <<SelfEdge("NO ACTION")>> =>
            /\ ~Result.isNull
            /\ Result.relationChain = <<targetTable, targetTable>>

----------------------------------------------------------------------------
(* C4 *)

\* two tables that reference each other, both keys cascading, one of them
\* the target
IsTwoCycle ==
    /\ Len(foreignKeys) = 2
    /\ \E a \in TableNames : \E b \in TableNames \ {a} :
          /\ { foreignKeys[i] : i \in 1..Len(foreignKeys) } =
                { [name |-> a, table |-> b, on_delete |-> "CASCADE"],
                  [name |-> b, table |-> a, on_delete |-> "CASCADE"] }
          /\ targetTable \in {a, b}

\* no table is on the call stack twice, and no more tables exist than the
\* root and one per table name
CallsBounded ==
    /\ Len(tables) <= Cardinality(TableNames) + 1
    /\ Len(stack) <= Len(tables)
    /\ \A i \in 1..Len(stack) : \A j \in 1..Len(stack) :
          stack[i].table = stack[j].table => i = j

OnStack(t) == \E i \in 1..Len(stack) : stack[i].table = t

FrameOf(t) == stack[CHOOSE i \in 1..Len(stack) : stack[i].table = t]

RECURSIVE SumOver(_, _)
SumOver(Work(_), n) == IF n = 0 THEN 0 ELSE Work(n) + SumOver(Work, n - 1)

\* steps collectRelations may still take on table t: all of them before the
\* call, the rest of its two loops while it is on the stack, none after
CollectWork(t) ==
    IF ~tables[t].collected THEN 2 * Len(relations) + 3
    ELSE IF OnStack(t) /\ FrameOf(t).loop = "relations"
         THEN 2 * Len(relations) + 3 - FrameOf(t).i
    ELSE IF OnStack(t) /\ FrameOf(t).loop = "deep"
         THEN Len(tables[t].relations) + 2 - FrameOf(t).i
    ELSE 0

\* steps findNonCascading may still take on table t
FindWork(t) ==
    IF t \notin checkedTables THEN Len(tables[t].relations) + 2
    ELSE IF OnStack(t) /\ FrameOf(t).loop = "find"
         THEN Len(tables[t].relations) + 2 - FrameOf(t).i
    ELSE 0

\* a bound on the steps the analysis may still take: the work left on the
\* tables that exist, the work on those tableFor may still create, the
\* search of the graph once built, and the calls from the top level
Rank ==
    LET unborn == Cardinality(TableNames) + 1 - Len(tables)
    IN  unborn * (2 * Len(relations) + 4)
          + SumOver(CollectWork, Len(tables))
          + (IF Built THEN SumOver(FindWork, Len(tables))
             ELSE (Cardinality(TableNames) + 1) * (Len(relations) + 2))
          + 2 * (MaxSearches - Len(results))
          + (IF pc = "findNonCascading" THEN 0 ELSE 1)

\* C4: for every schema, cyclic ones and self-references included, and
\* every target, collectRelations and then findNonCascading terminate: the
\* tables created and the nesting of the calls stay bounded, every step
\* lowers a rank that is never negative, the program is never stuck before
\* a result is reported, and for two tables that reference each other with
\* CASCADE the result is Safe.
AnalysisTerminates ==
    /\ [](/\ CallsBounded
          /\ Rank >= 0
          /\ (pc = "report" \/ ENABLED Next)
          /\ (Searched /\ IsTwoCycle) => Result.isNull)
    /\ [][Rank' < Rank]_vars

\* under fairness of the program's steps a result is eventually reported
ResultIsReported == <>Searched

\* the cycle of two tables has been built and searched, the search having
\* come back to the target's name
AnalysisTerminatesWitness ==
    /\ Searched
    /\ IsTwoCycle
    /\ Cardinality(checkedTables) = 3

----------------------------------------------------------------------------
(* C5 *)

\* C5: at every point there is at most one Table object per table name, the
\* target's name included.
OneTablePerName ==
    \A a \in 1..Len(tables) : \A b \in 1..Len(tables) :
        tables[a].name = tables[b].name => a = b

----------------------------------------------------------------------------
(* C6 *)

\* The statement of C6 read over every foreign key of the schema instead of
\* the rows of the query: it fails on a self-referencing key, which the
\* query drops (see C3).
ComponentOfSchemaBuilt == Built => ComponentBuilt(foreignKeys)

----------------------------------------------------------------------------
(* C7 *)

ExampleEdges ==
    { [name |-> "orders", table |-> "customers", on_delete |-> "CASCADE"],
      [name |-> "order_items", table |-> "orders", on_delete |-> "NO ACTION"] }

IsExample ==
    /\ Len(foreignKeys) = 2
    /\ { foreignKeys[i] : i \in 1..Len(foreignKeys) } = ExampleEdges
    /\ targetTable = "customers"

\* C7: the chain of an Unsafe result is a path of the schema from the
\* target: each consecutive pair is an edge from parent to child, cascading
\* for every pair but the last, and the last pair is the non-cascading
\* relation found; for orders -> customers CASCADE, order_items -> orders
\* NO ACTION and target customers it is customers, orders, order_items.
ChainIsDependencyPath ==
    (Searched /\ ~Result.isNull) =>
      LET chain == Result.relationChain
      IN  /\ Len(chain) >= 2
          /\ \A i \in 1..(Len(chain) - 1) :
                HasEdge(foreignKeys, chain[i], chain[i + 1], i < Len(chain) - 1)
          /\ tables[Result.found.parent].name = chain[Len(chain) - 1]
          /\ tables[Result.found.table].name = Last(chain)
          /\ ~Result.found.cascades
          /\ IsExample => chain = <<"customers", "orders", "order_items">>

\* the example schema has been searched and gave a chain of three tables
ChainIsDependencyPathWitness ==
    /\ Searched
    /\ IsExample
    /\ Len(Result.relationChain) = 3

----------------------------------------------------------------------------
(* C8 *)

\* C8: a second search of the same built root returns what the first did.
SecondSearchAgrees ==
    Len(results) >= 2 => results[2] = results[1]

----------------------------------------------------------------------------
(* C9 *)

\* a name occurs twice in the chain only as the last two elements
NoRepeatInChain(chain) ==
    \A i \in 1..Len(chain) : \A j \in 1..Len(chain) :
        (i < j /\ chain[i] = chain[j]) => (i = Len(chain) - 1 /\ j = Len(chain))

\* C9: during a search no table name has its relations iterated twice, and
\* no table name occurs twice in a returned chain except as the last
\* element of a self-loop witness.
EachNameExpandedOnce ==
    /\ \A a \in checkedTables : \A b \in checkedTables :
          tables[a].name = tables[b].name => a = b
    /\ \A n \in 1..Len(results) : NoRepeatInChain(results[n].relationChain)

----------------------------------------------------------------------------
(* C10 *)

\* the row from which relation k of table t was built
RowOf(t, k) == EdgesOf(relations, tables[t].name)[k]

RelationsOfTables ==
    { <<t, k>> \in (1..Len(tables)) \X (1..MaxEdges) :
        k <= Len(tables[t].relations) }

====
